---- MODULE Spec2Model ----
(***************************************************************************)
(* A model of lexer-io-perf (src/lib.rs): the Lexer over a Peekable byte   *)
(* iterator, and the byte sources ByteReader, BufferedReader, MMapReader   *)
(* and the in-memory vec::IntoIter<u8> the tests also feed the Lexer.      *)
(*                                                                         *)
(* Bytes are the integers 0..255.  None (end-of-stream) is EOS.  An i64 is *)
(* held as its canonical decimal numeral (most significant digit first, no *)
(* leading zero, <<0>> for zero) because 2^63-1 does not fit TLC's       *)
(* integers; the numeral is compared against the numeral of i64::MAX, so   *)
(* the 64-bit width is kept exactly.                                       *)
(***************************************************************************)
EXTENDS Integers, Sequences, FiniteSets, TLC

\* ------------------------------------------------------------------ bounds
\* longest enumerated input
MaxLen == 3
\* largest buffer capacity handed to BufferedReader::new
MaxCap == 3
\* how many read requests of the resource may fail in one run
MaxFaults == 1
\* how many more times next is called after it first returned None
MaxExtra == 1

VARIABLES
    content,   \* the bytes of the file (fixed for a run)
    kind,      \* which byte source is used: "vec", "byte", "buffered", "mmap"
    mode,      \* who pulls from the source: "lexer" (Lexer::new(src)) or "direct"
    inner,     \* the readable resource R: [pos, reads, faults]
    br,        \* BufferedReader: [buffer, offset, remainder]
    mm,        \* MMapReader: [base, len, ptr, end]
    vec,       \* vec::IntoIter<u8>: [buf, idx]
    mapping,   \* the address space: [live, munmaps, released]
    peeked,    \* Peekable::peeked: <<>> (nothing cached) or <<item>>
    lexer,     \* where Lexer::next stands: [pc, s]
    out,       \* the tokens next has returned so far
    ends,      \* how many times next has returned None
    status,    \* "live", "dropped" (owner dropped), "aborted" (panic unwound)
    pulled,    \* every item the byte source's next has returned, in order
    taken      \* how many bytes the Lexer took with self.inner.next()

vars == <<content, kind, mode, inner, br, mm, vec, mapping, peeked, lexer,
          out, ends, status, pulled, taken>>

\* Option::None of an Iterator<Item = u8>
EOS == -1

\* ------------------------------------------------------- byte classification
is_ascii_alphabetic(x) == (x >= 65 /\ x <= 90) \/ (x >= 97 /\ x <= 122)

is_ascii_digit(x) == x >= 48 /\ x <= 57

is_ascii_alphanumeric(x) == is_ascii_alphabetic(x) \/ is_ascii_digit(x)

\* space, \t, \n, form feed, \r (U+000B is not ASCII whitespace for Rust)
is_ascii_whitespace(x) == x \in {32, 9, 10, 12, 13}

\* a bug the identifier arm's guard could have: every byte from 0x80 on
\* counts as a letter
IsIdentStartOrHigh(x) == is_ascii_alphabetic(x) \/ x = 95 \/ x >= 128

\* line 31: x.is_ascii_alphabetic() || x == b'_'
IsIdentStart(x) == is_ascii_alphabetic(x) \/ x = 95

\* a bug the identifier loop could have: digits do not continue an identifier
IsIdentPartNoDigit(x) == is_ascii_alphabetic(x) \/ x = 95

\* lines 36-37: ch.is_ascii_alphanumeric() || ch == b'_'
IsIdentPart(x) == is_ascii_alphanumeric(x) \/ x = 95

\* ------------------------------------------------------------------ tokens
Identifier(s) == <<"Identifier", s>>

Number(v) == <<"Number", v>>

\* i64::MAX = 9223372036854775807 as a numeral
I64_MAX == <<9,2,2,3,3,7,2,0,3,6,8,5,4,7,7,5,8,0,7>>

\* a > b for canonical numerals
NumGt(a, b) ==
    \/ Len(a) > Len(b)
    \/ /\ Len(a) = Len(b)
       /\ \E i \in 1..Len(a) :
            /\ a[i] > b[i]
            /\ \A j \in 1..(i-1) : a[j] = b[j]

\* a bug the range check could have: i64::MAX itself is refused
CheckedMulAddStrict(acc, d) ==
    LET r == IF acc = <<0>> THEN <<d>> ELSE Append(acc, d)
    IN  [ok |-> NumGt(I64_MAX, r), v |-> r]

\* acc.checked_mul(10)?.checked_add(d)? : Ok(acc*10+d), or Err(PosOverflow)
\* when the result exceeds i64::MAX
CheckedMulAdd(acc, d) ==
    LET r == IF acc = <<0>> THEN <<d>> ELSE Append(acc, d)
    IN  [ok |-> ~NumGt(r, I64_MAX), v |-> r]

\* str::parse::<i64>() of a non-empty run of ASCII digits: the digits are
\* folded left to right, each step checked against the i64 range
RECURSIVE ParseFrom(_, _, _)
ParseFrom(s, i, acc) ==
    IF i > Len(s) THEN [ok |-> TRUE, v |-> acc]
    ELSE LET r == CheckedMulAdd(acc, s[i] - 48)
         IN  IF r.ok THEN ParseFrom(s, i + 1, r.v) ELSE r

ParseI64(s) == ParseFrom(s, 1, <<0>>)

\* ------------------------------------------------------ the readable resource
Min(a, b) == IF a < b THEN a ELSE b

\* One read request for up to `want` bytes on resource f.  A request returns
\* Ok(n) with 1 <= n <= want while bytes remain (a short read is allowed),
\* Ok(0) at the end of the content or for an empty buffer, or it fails:
\* interrupted (ErrorKind::Interrupted) or any other error.  A failed request
\* moves nothing.
ReadOutcomes(f, want) ==
    LET avail == Len(content) - f.pos
        ns == IF want = 0 \/ avail = 0 THEN {0} ELSE 1..Min(want, avail)
    IN  { [res |-> "ok", n |-> n,
           f |-> [pos |-> f.pos + n, reads |-> f.reads + 1, faults |-> f.faults]]
          : n \in ns }
        \cup
        { [res |-> e, n |-> 0,
           f |-> [pos |-> f.pos, reads |-> f.reads + 1, faults |-> f.faults + 1]]
          : e \in IF f.faults < MaxFaults THEN {"interrupted", "error"} ELSE {} }

\* ------------------------------------------------------------- ByteReader
\* self.inner.read_exact(&mut [0u8; 1]): read until the one byte is there.
\* An interrupted request is ignored and the request issued again; Ok(0)
\* gives Err(UnexpectedEof); any other error is returned.
RECURSIVE ReadExact1(_)
ReadExact1(f) ==
    UNION { CASE o.res = "ok" /\ o.n = 1 -> {[ok |-> TRUE, f |-> o.f]}
              [] o.res = "ok" /\ o.n = 0 -> {[ok |-> FALSE, f |-> o.f]}
              [] o.res = "interrupted" -> ReadExact1(o.f)
              [] OTHER -> {[ok |-> FALSE, f |-> o.f]}
            : o \in ReadOutcomes(f, 1) }

\* ByteReader::next: Ok(_) => Some(buf[0]), Err(_) => None
ByteReaderNext(f) ==
    { [item |-> IF r.ok THEN content[r.f.pos] ELSE EOS, inner |-> r.f]
      : r \in ReadExact1(f) }

\* --------------------------------------------------------- BufferedReader
\* what an unfilled position of the caller's buffer may hold (make_box leaves
\* the memory uninitialised; a reused buffer holds old bytes)
JunkBytes == {63, 97}

\* a bug refill_buffer could have: offset is not reset
RefillBufferKeepOffset(f, b) ==
    { IF o.res = "ok" /\ o.n > 0
      THEN [some |-> TRUE, inner |-> o.f,
            br |-> [buffer |-> [i \in 1..Len(b.buffer) |->
                                  IF i <= o.n THEN content[f.pos + i]
                                  ELSE b.buffer[i]],
                    offset |-> b.offset, remainder |-> o.n]]
      ELSE [some |-> FALSE, inner |-> o.f, br |-> b]
      : o \in ReadOutcomes(f, Len(b.buffer)) }

\* a bug refill_buffer could have: a read of zero bytes or a failed read
\* empties the buffer (offset = remainder = 0)
RefillBufferClearsAtEnd(f, b) ==
    { IF o.res = "ok" /\ o.n > 0
      THEN [some |-> TRUE, inner |-> o.f,
            br |-> [buffer |-> [i \in 1..Len(b.buffer) |->
                                  IF i <= o.n THEN content[f.pos + i]
                                  ELSE b.buffer[i]],
                    offset |-> 0, remainder |-> o.n]]
      ELSE [some |-> FALSE, inner |-> o.f,
            br |-> [b EXCEPT !.offset = 0, !.remainder = 0]]
      : o \in ReadOutcomes(f, Len(b.buffer)) }

\* self.inner.read(self.buffer): Err(_) => None, Ok(0) => None,
\* Ok(n) => { offset = 0; remainder = n; Some(()) }
RefillBuffer(f, b) ==
    { IF o.res = "ok" /\ o.n > 0
      THEN [some |-> TRUE, inner |-> o.f,
            br |-> [buffer |-> [i \in 1..Len(b.buffer) |->
                                  IF i <= o.n THEN content[f.pos + i]
                                  ELSE b.buffer[i]],
                    offset |-> 0, remainder |-> o.n]]
      ELSE [some |-> FALSE, inner |-> o.f, br |-> b]
      : o \in ReadOutcomes(f, Len(b.buffer)) }

\* *self.buffer.get_unchecked(offset): past the buffer's end the read is
\* undefined and may give anything
GetUnchecked(buffer, offset) ==
    IF offset < Len(buffer) THEN {buffer[offset + 1]} ELSE JunkBytes

\* a bug BufferedReader::next could have: the byte is read after offset was
\* advanced, one position too far
ServeByteAfterAdvance(f, b) ==
    { [item |-> x, inner |-> f, br |-> [b EXCEPT !.offset = b.offset + 1]]
      : x \in GetUnchecked(b.buffer, b.offset + 1) }

\* the tail of BufferedReader::next: serve the byte at offset, advance offset
ServeByte(f, b) ==
    { [item |-> x, inner |-> f, br |-> [b EXCEPT !.offset = b.offset + 1]]
      : x \in GetUnchecked(b.buffer, b.offset) }

\* a bug BufferedReader::next could have: offset is advanced before the
\* refill is known to have succeeded
BufferedReaderNextEagerAdvance(f, b) ==
    IF b.offset = b.remainder
    THEN UNION { IF r.some THEN ServeByte(r.inner, r.br)
                 ELSE {[item |-> EOS, inner |-> r.inner,
                        br |-> [r.br EXCEPT !.offset = r.br.offset + 1]]}
                 : r \in RefillBuffer(f, b) }
    ELSE ServeByte(f, b)

\* BufferedReader::next
BufferedReaderNext(f, b) ==
    IF b.offset = b.remainder
    THEN UNION { IF r.some THEN ServeByte(r.inner, r.br)
                 ELSE {[item |-> EOS, inner |-> r.inner, br |-> r.br]}
                 : r \in RefillBuffer(f, b) }
    ELSE ServeByte(f, b)

\* ------------------------------------------------------------- MMapReader
\* where the kernel places a new mapping (any page-aligned address)
MapBase == 4096

\* libc::MAP_FAILED, (void *) -1
MAP_FAILED == -1

\* libc::mmap(null, len, PROT_READ, MAP_SHARED, fd, 0): a request of length
\* zero fails with EINVAL
Mmap(len) == IF len = 0 THEN MAP_FAILED ELSE MapBase

\* a bug MMapReader::new could have: the end marker one byte short
MMapReaderNewShortEnd(len) ==
    LET p == Mmap(len)
    IN  [base |-> p, len |-> len, ptr |-> p, end |-> p + len - 1]

\* MMapReader::new: len from the file's metadata, ptr = base, end = base + len
MMapReaderNew(len) ==
    LET p == Mmap(len)
    IN  [base |-> p, len |-> len, ptr |-> p, end |-> p + len]

\* the address space after MMapReader::new
MappingNew(len) ==
    [base |-> Mmap(len), len |-> len, live |-> len > 0,
     munmaps |-> 0, released |-> 0]

\* libc::munmap(base, len): releases the mapping when it covers it; its
\* result is ignored
Munmap(m, base, len) ==
    IF m.live /\ base = m.base /\ len = m.len /\ len > 0
    THEN [m EXCEPT !.live = FALSE, !.munmaps = @ + 1, !.released = @ + 1]
    ELSE [m EXCEPT !.munmaps = @ + 1]

\* *self.ptr: a read outside a live mapping is undefined
Deref(m, p) ==
    IF mapping.live /\ p >= mapping.base /\ p < mapping.base + mapping.len
    THEN {content[p - mapping.base + 1]}
    ELSE JunkBytes

\* a bug MMapReader::next could have: the cursor compared with <= against end,
\* so that the byte at end is read too
MMapReaderNextInclusive(m) ==
    IF m.ptr <= m.end
    THEN { [item |-> x, mm |-> [m EXCEPT !.ptr = m.ptr + 1]] : x \in Deref(m, m.ptr) }
    ELSE { [item |-> EOS, mm |-> m] }

\* a bug MMapReader::next could have: the cursor is advanced before the byte
\* is read
MMapReaderNextReadAfterAdvance(m) ==
    IF m.ptr < m.end
    THEN { [item |-> x, mm |-> [m EXCEPT !.ptr = m.ptr + 1]]
           : x \in Deref(m, m.ptr + 1) }
    ELSE { [item |-> EOS, mm |-> m] }

\* MMapReader::next
MMapReaderNext(m) ==
    IF m.ptr < m.end
    THEN { [item |-> x, mm |-> [m EXCEPT !.ptr = m.ptr + 1]] : x \in Deref(m, m.ptr) }
    ELSE { [item |-> EOS, mm |-> m] }

\* ----------------------------------------------------------- vec::IntoIter
\* the in-memory iterator of test_read_to_vec / test_read_to_string
IntoIterNext(v) ==
    IF v.idx < Len(v.buf)
    THEN [item |-> v.buf[v.idx + 1], vec |-> [v EXCEPT !.idx = v.idx + 1]]
    ELSE [item |-> EOS, vec |-> v]

\* --------------------------------------------------- the source behind I
\* <I as Iterator>::next for the source in use: every possible outcome of one
\* pull, as the item returned and the source's state after it
SourceNext ==
    CASE kind = "byte" ->
           { [item |-> r.item, inner |-> r.inner, br |-> br, mm |-> mm, vec |-> vec]
             : r \in ByteReaderNext(inner) }
      [] kind = "buffered" ->
           { [item |-> r.item, inner |-> r.inner, br |-> r.br, mm |-> mm, vec |-> vec]
             : r \in BufferedReaderNext(inner, br) }
      [] kind = "mmap" ->
           { [item |-> r.item, inner |-> inner, br |-> br, mm |-> r.mm, vec |-> vec]
             : r \in MMapReaderNext(mm) }
      [] OTHER ->
           LET r == IntoIterNext(vec)
           IN  { [item |-> r.item, inner |-> inner, br |-> br, mm |-> mm, vec |-> r.vec] }

\* ------------------------------------------------- Lexer over plain bytes
\* the end of the identifier loop started at b[j]: the first position whose
\* byte is not a letter, digit or underscore
RECURSIVE IdentEnd(_, _)
IdentEnd(b, j) ==
    IF j <= Len(b) /\ IsIdentPart(b[j]) THEN IdentEnd(b, j + 1) ELSE j

\* the end of the digit loop
RECURSIVE DigitEnd(_, _)
DigitEnd(b, j) ==
    IF j <= Len(b) /\ is_ascii_digit(b[j]) THEN DigitEnd(b, j + 1) ELSE j

\* Lexer::new(b.into_iter()) called until it returns None or panics, from
\* position i on with toks already returned
RECURSIVE LexFrom(_, _, _)
LexFrom(b, i, toks) ==
    IF i > Len(b) THEN [toks |-> toks, panic |-> FALSE]
    ELSE IF IsIdentStart(b[i])
    THEN LET j == IdentEnd(b, i + 1)
         IN  LexFrom(b, j, Append(toks, Identifier(SubSeq(b, i, j - 1))))
    ELSE IF is_ascii_digit(b[i])
    THEN LET j == DigitEnd(b, i + 1)
             r == ParseI64(SubSeq(b, i, j - 1))
         IN  IF r.ok THEN LexFrom(b, j, Append(toks, Number(r.v)))
             ELSE [toks |-> toks, panic |-> TRUE]
    ELSE IF is_ascii_whitespace(b[i])
    THEN LexFrom(b, i + 1, toks)
    ELSE [toks |-> toks, panic |-> FALSE]

\* the tokens collected from a Lexer over the in-memory bytes b
LexBytes(b) == LexFrom(b, 1, <<>>)

\* ---------------------------------------------------------------- Peekable
\* Peekable::peek: the cached item if there is one, else one pull on the
\* source, whose item is cached.  `fresh` says that the source was pulled.
Peek ==
    IF peeked # <<>>
    THEN { [item |-> peeked[1], fresh |-> FALSE, inner |-> inner, br |-> br,
            mm |-> mm, vec |-> vec] }
    ELSE { [item |-> r.item, fresh |-> TRUE, inner |-> r.inner, br |-> r.br,
            mm |-> r.mm, vec |-> r.vec] : r \in SourceNext }

\* a bug the lookahead could have: a byte that was looked at and not taken is
\* not kept, so the next look pulls the source again
AfterPeekForgets(p, consume) ==
    /\ inner' = p.inner
    /\ br' = p.br
    /\ mm' = p.mm
    /\ vec' = p.vec
    /\ pulled' = IF p.fresh THEN Append(pulled, p.item) ELSE pulled
    /\ peeked' = IF consume \/ p.item # EOS THEN <<>> ELSE <<p.item>>
    /\ taken' = IF consume THEN taken + 1 ELSE taken

\* the state of the source and of Peekable after peek gave p, and after
\* Peekable::next took the cached item when `consume`
AfterPeek(p, consume) ==
    /\ inner' = p.inner
    /\ br' = p.br
    /\ mm' = p.mm
    /\ vec' = p.vec
    /\ pulled' = IF p.fresh THEN Append(pulled, p.item) ELSE pulled
    /\ peeked' = IF consume THEN <<>> ELSE <<p.item>>
    /\ taken' = IF consume THEN taken + 1 ELSE taken

\* ------------------------------------------------------------------- Drop
\* a bug Drop for MMapReader could have: munmap from the cursor, not the base
DropSourceAtCursor ==
    mapping' = IF kind = "mmap" THEN Munmap(mapping, mm.ptr, mm.len) ELSE mapping

\* the source goes out of scope: Drop for MMapReader calls munmap(base, len);
\* the other sources release nothing
DropSource ==
    mapping' = IF kind = "mmap" THEN Munmap(mapping, mm.base, mm.len) ELSE mapping

\* ------------------------------------------------------------------ Lexer
Calling == status = "live" /\ mode = "lexer"

\* a bug the None arm could have: the cached None is taken from the Peekable,
\* so the following call pulls the source again
LexerEndTakesNone ==
    /\ Calling /\ lexer.pc = "scan" /\ ends <= MaxExtra
    /\ \E p \in Peek :
         /\ p.item = EOS
         /\ inner' = p.inner /\ br' = p.br /\ mm' = p.mm /\ vec' = p.vec
         /\ pulled' = IF p.fresh THEN Append(pulled, p.item) ELSE pulled
         /\ peeked' = <<>>
         /\ taken' = taken
    /\ ends' = ends + 1
    /\ UNCHANGED <<content, kind, mode, mapping, lexer, out, status>>

\* next, peek gives None: return None
LexerEnd ==
    /\ Calling /\ lexer.pc = "scan" /\ ends <= MaxExtra
    /\ \E p \in Peek :
         /\ p.item = EOS
         /\ AfterPeek(p, FALSE)
    /\ ends' = ends + 1
    /\ UNCHANGED <<content, kind, mode, mapping, lexer, out, status>>

\* next, peek gives a letter or underscore: s = vec![x]; self.inner.next()
LexerIdentStart ==
    /\ Calling /\ lexer.pc = "scan" /\ ends <= MaxExtra
    /\ \E p \in Peek :
         /\ p.item # EOS /\ IsIdentStart(p.item)
         /\ AfterPeek(p, TRUE)
         /\ lexer' = [pc |-> "ident", s |-> <<p.item>>]
    /\ UNCHANGED <<content, kind, mode, mapping, out, ends, status>>

\* the identifier loop: s.push(ch); self.inner.next()
LexerIdentPush ==
    /\ Calling /\ lexer.pc = "ident"
    /\ \E p \in Peek :
         /\ p.item # EOS /\ IsIdentPart(p.item)
         /\ AfterPeek(p, TRUE)
         /\ lexer' = [lexer EXCEPT !.s = Append(lexer.s, p.item)]
    /\ UNCHANGED <<content, kind, mode, mapping, out, ends, status>>

\* a bug the identifier loop could have: a None from peek ends the call with
\* None, and the accumulated bytes are lost
LexerIdentEmitUnlessEnd ==
    /\ Calling /\ lexer.pc = "ident"
    /\ \E p \in Peek :
         /\ p.item = EOS \/ ~IsIdentPart(p.item)
         /\ AfterPeek(p, FALSE)
         /\ out' = IF p.item = EOS THEN out ELSE Append(out, Identifier(lexer.s))
         /\ ends' = IF p.item = EOS THEN ends + 1 ELSE ends
    /\ lexer' = [pc |-> "scan", s |-> <<>>]
    /\ UNCHANGED <<content, kind, mode, mapping, status>>

\* the identifier loop ends (break, or peek gives None):
\* Some(Token::Identifier(String::from_utf8_unchecked(s)))
LexerIdentEmit ==
    /\ Calling /\ lexer.pc = "ident"
    /\ \E p \in Peek :
         /\ p.item = EOS \/ ~IsIdentPart(p.item)
         /\ AfterPeek(p, FALSE)
    /\ out' = Append(out, Identifier(lexer.s))
    /\ lexer' = [pc |-> "scan", s |-> <<>>]
    /\ UNCHANGED <<content, kind, mode, mapping, ends, status>>

\* next, peek gives a digit: s = vec![x]; self.inner.next()
LexerNumberStart ==
    /\ Calling /\ lexer.pc = "scan" /\ ends <= MaxExtra
    /\ \E p \in Peek :
         /\ p.item # EOS /\ is_ascii_digit(p.item)
         /\ AfterPeek(p, TRUE)
         /\ lexer' = [pc |-> "number", s |-> <<p.item>>]
    /\ UNCHANGED <<content, kind, mode, mapping, out, ends, status>>

\* the digit loop: s.push(ch); self.inner.next()
LexerNumberPush ==
    /\ Calling /\ lexer.pc = "number"
    /\ \E p \in Peek :
         /\ p.item # EOS /\ is_ascii_digit(p.item)
         /\ AfterPeek(p, TRUE)
         /\ lexer' = [lexer EXCEPT !.s = Append(lexer.s, p.item)]
    /\ UNCHANGED <<content, kind, mode, mapping, out, ends, status>>

\* the digit loop ends and parse() is Ok(v): Some(Token::Number(v))
LexerNumberEmit ==
    /\ Calling /\ lexer.pc = "number"
    /\ \E p \in Peek :
         /\ p.item = EOS \/ ~is_ascii_digit(p.item)
         /\ AfterPeek(p, FALSE)
    /\ ParseI64(lexer.s).ok
    /\ out' = Append(out, Number(ParseI64(lexer.s).v))
    /\ lexer' = [pc |-> "scan", s |-> <<>>]
    /\ UNCHANGED <<content, kind, mode, mapping, ends, status>>

\* the digit loop ends and parse() is Err: unwrap() panics; the unwinding
\* drops the Lexer and with it the source
LexerNumberPanic ==
    /\ Calling /\ lexer.pc = "number"
    /\ \E p \in Peek :
         /\ p.item = EOS \/ ~is_ascii_digit(p.item)
         /\ AfterPeek(p, FALSE)
    /\ ~ParseI64(lexer.s).ok
    /\ status' = "aborted"
    /\ DropSource
    /\ UNCHANGED <<content, kind, mode, lexer, out, ends>>

\* a bug the whitespace arm could have: the byte is taken and None returned,
\* without the recursive call
LexerSkipWhitespaceEnds ==
    /\ Calling /\ lexer.pc = "scan" /\ ends <= MaxExtra
    /\ \E p \in Peek :
         /\ p.item # EOS /\ is_ascii_whitespace(p.item)
         /\ AfterPeek(p, TRUE)
    /\ ends' = ends + 1
    /\ UNCHANGED <<content, kind, mode, mapping, lexer, out, status>>

\* next, peek gives whitespace: self.inner.next(); self.next()
LexerSkipWhitespace ==
    /\ Calling /\ lexer.pc = "scan" /\ ends <= MaxExtra
    /\ \E p \in Peek :
         /\ p.item # EOS /\ is_ascii_whitespace(p.item)
         /\ AfterPeek(p, TRUE)
    /\ UNCHANGED <<content, kind, mode, mapping, lexer, out, ends, status>>

\* a bug the fallthrough arm could have: the byte is skipped like whitespace
LexerUnrecognizedSkip ==
    /\ Calling /\ lexer.pc = "scan" /\ ends <= MaxExtra
    /\ \E p \in Peek :
         /\ p.item # EOS
         /\ ~IsIdentStart(p.item) /\ ~is_ascii_digit(p.item)
         /\ ~is_ascii_whitespace(p.item)
         /\ AfterPeek(p, TRUE)
    /\ UNCHANGED <<content, kind, mode, mapping, lexer, out, ends, status>>

\* a bug the fallthrough arm could have: the byte is taken from the Peekable
\* before None is returned
LexerUnrecognizedConsume ==
    /\ Calling /\ lexer.pc = "scan" /\ ends <= MaxExtra
    /\ \E p \in Peek :
         /\ p.item # EOS
         /\ ~IsIdentStart(p.item) /\ ~is_ascii_digit(p.item)
         /\ ~is_ascii_whitespace(p.item)
         /\ AfterPeek(p, TRUE)
    /\ ends' = ends + 1
    /\ UNCHANGED <<content, kind, mode, mapping, lexer, out, status>>

\* next, peek gives any other byte: return None
LexerUnrecognized ==
    /\ Calling /\ lexer.pc = "scan" /\ ends <= MaxExtra
    /\ \E p \in Peek :
         /\ p.item # EOS
         /\ ~IsIdentStart(p.item) /\ ~is_ascii_digit(p.item)
         /\ ~is_ascii_whitespace(p.item)
         /\ AfterPeek(p, FALSE)
    /\ ends' = ends + 1
    /\ UNCHANGED <<content, kind, mode, mapping, lexer, out, status>>

\* ------------------------------------------------------ the other callers
EosCount == Cardinality({i \in 1..Len(pulled) : pulled[i] = EOS})

\* a caller iterates the byte source itself: one call of its next
DirectPull ==
    /\ status = "live" /\ mode = "direct" /\ EosCount <= MaxExtra
    /\ \E r \in SourceNext :
         /\ inner' = r.inner /\ br' = r.br /\ mm' = r.mm /\ vec' = r.vec
         /\ pulled' = Append(pulled, r.item)
    /\ UNCHANGED <<content, kind, mode, mapping, peeked, lexer, out, ends, status,
                   taken>>

\* the owner lets the Lexer (or the source) go out of scope, at any point
Drop ==
    /\ status = "live"
    /\ status' = "dropped"
    /\ DropSource
    /\ UNCHANGED <<content, kind, mode, inner, br, mm, vec, peeked, lexer,
                   out, ends, pulled, taken>>

\* ------------------------------------------------------------------- inputs
\* the bytes inputs are enumerated over: a _ 1 space @
Alphabet == {97, 95, 49, 32, 64}

RECURSIVE SeqsUpTo(_, _)
SeqsUpTo(S, n) ==
    IF n = 0 THEN {<<>>}
    ELSE LET shorter == SeqsUpTo(S, n - 1)
         IN  shorter \cup {Append(s, x) : s \in {t \in shorter : Len(t) = n - 1}, x \in S}

ShortInputs == SeqsUpTo(Alphabet, MaxLen)

Ascii(ds) == [i \in 1..Len(ds) |-> ds[i] + 48]

\* digit runs with leading zeros and around the i64 range, alone and next to
\* other bytes
LongInputs ==
    LET max == I64_MAX
        over == <<9,2,2,3,3,7,2,0,3,6,8,5,4,7,7,5,8,0,8>>
        big == <<1,0,0,0,0,0,0,0,0,0,0,0,0,0,0,0,0,0,0,0>>
    IN  { Ascii(<<0>>), Ascii(<<0, 0, 7>>), Ascii(<<1, 0>>) \o <<97>>,
          Ascii(max), Ascii(over), Ascii(big),
          Ascii(<<0, 0>> \o max), Ascii(<<0>> \o over),
          Ascii(max) \o <<97>>, Ascii(over) \o <<32, 97>>,
          <<97, 32>> \o Ascii(Append(max, 0)) }

\* inputs with bytes from 0x80 on: alone, after a letter (the UTF-8 bytes of
\* an accented letter), inside a digit run and inside an identifier
HighInputs ==
    { <<200>>, <<97, 195, 169>>, <<49, 200, 49>>, <<95, 128, 97>>, <<97, 32, 255>> }

Inputs == ShortInputs \cup LongInputs \cup HighInputs

Kinds == {"vec", "byte", "buffered", "mmap"}

\* the sources an input is read through: the long digit runs are read from
\* memory only, every other input through all four sources
KindsOf(b) == IF b \in LongInputs THEN {"vec", "mmap"} ELSE Kinds

Init ==
    /\ content \in Inputs
    /\ kind \in KindsOf(content)
    /\ mode \in IF content \in ShortInputs THEN {"lexer", "direct"} ELSE {"lexer"}
    /\ inner = [pos |-> 0, reads |-> 0, faults |-> 0]
    /\ \E cap \in 1..MaxCap, junk \in JunkBytes :
         br = IF kind = "buffered"
              THEN [buffer |-> [i \in 1..cap |-> junk], offset |-> 0, remainder |-> 0]
              ELSE [buffer |-> <<>>, offset |-> 0, remainder |-> 0]
    /\ mm = IF kind = "mmap" THEN MMapReaderNew(Len(content))
            ELSE [base |-> 0, len |-> 0, ptr |-> 0, end |-> 0]
    /\ mapping = IF kind = "mmap" THEN MappingNew(Len(content))
                 ELSE [base |-> 0, len |-> 0, live |-> FALSE, munmaps |-> 0,
                       released |-> 0]
    /\ vec = IF kind = "vec" THEN [buf |-> content, idx |-> 0]
             ELSE [buf |-> <<>>, idx |-> 0]
    /\ peeked = <<>>
    /\ lexer = [pc |-> "scan", s |-> <<>>]
    /\ out = <<>>
    /\ ends = 0
    /\ status = "live"
    /\ pulled = <<>>
    /\ taken = 0

Next ==
    \/ LexerEnd
    \/ LexerIdentStart
    \/ LexerIdentPush
    \/ LexerIdentEmit
    \/ LexerNumberStart
    \/ LexerNumberPush
    \/ LexerNumberEmit
    \/ LexerNumberPanic
    \/ LexerSkipWhitespace
    \/ LexerUnrecognized
    \/ DirectPull
    \/ Drop

Spec == Init /\ [][Next]_vars

\* =================================================================== claims
IsPrefix(a, b) == Len(a) <= Len(b) /\ SubSeq(b, 1, Len(a)) = a

\* the pulls that returned a byte
BytesPulled == Cardinality({i \in 1..Len(pulled) : pulled[i] # EOS})

\* a run in which no read request of the resource failed
NoFault == inner.faults = 0

\* C1: for every content, the tokens the Lexer returns over ByteReader, over
\* BufferedReader with any capacity, over MMapReader and over the in-memory
\* iterator are those of the Lexer over the plain bytes: at every moment a
\* prefix of them, all of them once next has returned None, and a panic in
\* exactly the same place.
C1_SourceTransparency ==
    (mode = "lexer" /\ NoFault) =>
        LET ref == LexBytes(content)
        IN  /\ IsPrefix(out, ref.toks)
            /\ ends >= 1 => (out = ref.toks /\ ~ref.panic)
            /\ status = "aborted" => (out = ref.toks /\ ref.panic)

\* C1 happens: a buffered run that needed several refills has returned
\* two tokens and then None
C1_Witness ==
    /\ mode = "lexer" /\ kind = "buffered" /\ NoFault
    /\ inner.reads >= 3 /\ Len(out) = 2 /\ ends >= 1

\* ---- the grammar of the specification, stated without the Lexer's code
Letters == (65..90) \cup (97..122)

Digits == 48..57

Underscore == 95

Whitespace == {9, 10, 12, 13, 32}

Max(S) == CHOOSE x \in S : \A y \in S : y <= x

\* the length of the longest match of [A-Za-z_][A-Za-z0-9_]* at b[i]
IdentMatch(b, i) ==
    Max({ n \in 0..(Len(b) - i + 1) :
            \/ n = 0
            \/ /\ b[i] \in Letters \cup {Underscore}
               /\ \A k \in (i + 1)..(i + n - 1) :
                    b[k] \in Letters \cup Digits \cup {Underscore} })

\* the length of the longest match of [0-9]+ at b[i]
NumberMatch(b, i) ==
    Max({ n \in 0..(Len(b) - i + 1) : \A k \in i..(i + n - 1) : b[k] \in Digits })

\* the base-10 value of the n digits at b[i] (n <= 9)
RECURSIVE ValueOf(_, _, _)
ValueOf(b, i, n) ==
    IF n = 0 THEN 0 ELSE ValueOf(b, i, n - 1) * 10 + (b[i + n - 1] - 48)

\* the numeral of a natural number
RECURSIVE Numeral(_)
Numeral(x) == IF x < 10 THEN <<x>> ELSE Append(Numeral(x \div 10), x % 10)

\* the maximal-munch tokenization of b from position i
RECURSIVE Munch(_, _)
Munch(b, i) ==
    IF i > Len(b) THEN <<>>
    ELSE IF b[i] \in Whitespace THEN Munch(b, i + 1)
    ELSE IF IdentMatch(b, i) > 0
    THEN LET n == IdentMatch(b, i)
         IN  <<Identifier(SubSeq(b, i, i + n - 1))>> \o Munch(b, i + n)
    ELSE IF NumberMatch(b, i) > 0
    THEN LET n == NumberMatch(b, i)
         IN  <<Number(Numeral(ValueOf(b, i, n)))>> \o Munch(b, i + n)
    ELSE <<>>

OnlyRecognized(b) ==
    \A i \in 1..Len(b) : b[i] \in Letters \cup Digits \cup {Underscore} \cup Whitespace

\* C2: for an input of letters, digits, underscores and whitespace only (of
\* at most 9 bytes, so that every digit run's value is a small integer), the
\* tokens the Lexer returns are the maximal-munch tokenization: a prefix of
\* it while scanning, all of it once next has returned None, and no panic.
C2_MaximalMunch ==
    (mode = "lexer" /\ NoFault /\ OnlyRecognized(content) /\ Len(content) <= 9) =>
        /\ IsPrefix(out, Munch(content, 1))
        /\ ends >= 1 => out = Munch(content, 1)
        /\ status # "aborted"

\* C2 happens: `10a` has given Number(10) then Identifier("a"), then None
C2_Witness ==
    /\ mode = "lexer" /\ NoFault /\ content = <<49, 48, 97>>
    /\ out = <<Number(<<1, 0>>), Identifier(<<97>>)>> /\ ends >= 1

HasBad(b) == ~OnlyRecognized(b)

\* the position of the first byte that is no letter, digit, underscore or
\* whitespace
FirstBad(b) ==
    CHOOSE i \in 1..Len(b) :
        /\ ~OnlyRecognized(<<b[i]>>)
        /\ OnlyRecognized(SubSeq(b, 1, i - 1))

\* the input up to, and without, its first unrecognized byte
GoodPrefix(b) == SubSeq(b, 1, FirstBad(b) - 1)

\* C3: when the input holds an unrecognized byte, the tokens the Lexer
\* returns are those of the prefix before the first such byte: a prefix of
\* them while scanning, exactly them once next has returned None, and they
\* stay so however often next is called again.
C3_SilentTruncation ==
    (mode = "lexer" /\ NoFault /\ HasBad(content)) =>
        LET ref == LexBytes(GoodPrefix(content))
        IN  /\ IsPrefix(out, ref.toks)
            /\ (ends >= 1 /\ ~ref.panic) => out = ref.toks

\* C3 happens: `a@a` gave Identifier("a") and then None, twice
C3_Witness ==
    /\ mode = "lexer" /\ NoFault /\ content = <<97, 64, 97>>
    /\ out = <<Identifier(<<97>>)>> /\ ends = 2

\* C4 as claimed: the source never returns more bytes than precede the
\* unrecognized byte.
C4_NoPullOfTrigger ==
    (mode = "lexer" /\ HasBad(content)) => BytesPulled <= FirstBad(content) - 1

\* C4 as amended: the source returns at most the bytes before the
\* unrecognized byte and that byte itself, which peek pulls once and which
\* then stays in the Peekable, never taken; no byte after it is ever pulled,
\* however often next is called.
C4_TriggerStaysPeeked ==
    (mode = "lexer" /\ HasBad(content)) =>
        /\ BytesPulled <= FirstBad(content)
        /\ BytesPulled = FirstBad(content) =>
              peeked = <<content[FirstBad(content)]>>

\* C4 happens: next has returned None twice at an unrecognized byte that
\* other bytes follow
C4_Witness ==
    /\ mode = "lexer" /\ HasBad(content) /\ FirstBad(content) < Len(content)
    /\ BytesPulled = FirstBad(content) /\ ends = 2

\* the digits of a run, without its leading zeros
RECURSIVE StripZeros(_)
StripZeros(d) == IF Len(d) > 1 /\ d[1] = 0 THEN StripZeros(Tail(d)) ELSE d

RunValue(s) == StripZeros([i \in 1..Len(s) |-> s[i] - 48])

\* 2^63 - 1
TwoTo63Minus1 == <<9,2,2,3,3,7,2,0,3,6,8,5,4,7,7,5,8,0,7>>

\* v <= 2^63 - 1, for a numeral without leading zeros
InI64Range(v) ==
    \/ Len(v) < 19
    \/ /\ Len(v) = 19
       /\ \A i \in 1..19 :
            v[i] > TwoTo63Minus1[i] => \E j \in 1..(i - 1) : v[j] < TwoTo63Minus1[j]

\* the end of a digit run: a step that leaves the digit loop
C5_RunEnds ==
    (status = "live" /\ lexer.pc = "number"
       /\ (lexer'.pc # "number" \/ status' = "aborted")) =>
        IF InI64Range(RunValue(lexer.s))
        THEN /\ status' = "live"
             /\ out' = Append(out, Number(RunValue(lexer.s)))
             /\ ends' = ends
        ELSE /\ status' = "aborted"
             /\ out' = out
             /\ ends' = ends

\* C5: a digit run whose value is at most 2^63-1 ends in Number with exactly
\* that value, whatever its length and leading zeros, and without a panic;
\* a run whose value is larger ends in the panic, with no token and no None
\* returned for it; and the panic happens nowhere else.
C5_OverflowIsFatal ==
    /\ [][C5_RunEnds]_vars
    /\ [](status = "aborted" =>
            (lexer.pc = "number" /\ ~InI64Range(RunValue(lexer.s))))

\* C5 happens: the run 9223372036854775808 has ended in the panic
C5_Witness ==
    /\ status = "aborted"
    /\ RunValue(lexer.s) = <<9,2,2,3,3,7,2,0,3,6,8,5,4,7,7,5,8,0,8>>

\* C6 as claimed: a pull during which a read request of the resource fails
\* returns end-of-stream, whatever the failure.
C6_FailureIsEndOfStream ==
    [][ inner'.faults > inner.faults =>
          pulled' = Append(pulled, EOS) ]_vars

\* what the source must have returned after n pulls over content b: its
\* bytes in order, each once, then end-of-stream
Delivered(b, n) == [i \in 1..n |-> IF i <= Len(b) THEN b[i] ELSE EOS]

\* C7: whatever the capacity and however short the reads, the items
\* BufferedReader returns are the content's bytes, each once and in order,
\* and then end-of-stream, as long as no read fails.
C7_BufferSizeInvariance ==
    (kind = "buffered" /\ NoFault) => pulled = Delivered(content, Len(pulled))

\* C7 happens: a 2-byte buffer has delivered 3 bytes and end-of-stream, with
\* a short read on the way
C7_Witness ==
    /\ kind = "buffered" /\ mode = "direct" /\ NoFault
    /\ Len(br.buffer) = 2 /\ Len(content) = 3
    /\ pulled = content \o <<EOS>> /\ inner.reads = 4

\* C8: 0 <= offset <= remainder <= buffer.len() in every state of a
\* BufferedReader, failed reads and end-of-stream included.
C8_BufferInvariant ==
    kind = "buffered" =>
        /\ 0 <= br.offset
        /\ br.offset <= br.remainder
        /\ br.remainder <= Len(br.buffer)

\* C8 happens: a pull on a fully served buffer hit a failed read and returned
\* end-of-stream
C8_Witness ==
    /\ kind = "buffered" /\ inner.faults = 1
    /\ br.offset = br.remainder /\ br.remainder = Len(br.buffer)
    /\ Len(pulled) >= 2 /\ pulled[Len(pulled)] = EOS

\* C9: the mapping MMapReader::new created is live, and munmap not yet
\* called, for as long as the source lives; once the source is gone, dropped
\* by its owner at any point or by the unwinding of the overflow panic,
\* munmap has been called once and has released it; every pull starts
\* while it is live.
C9_ReleasedExactlyOnce ==
    /\ []((kind = "mmap" /\ Len(content) > 0) =>
            IF status = "live"
            THEN mapping.live /\ mapping.munmaps = 0 /\ mapping.released = 0
            ELSE ~mapping.live /\ mapping.munmaps = 1 /\ mapping.released = 1)
    /\ [][ (kind = "mmap" /\ Len(content) > 0 /\ pulled' # pulled) =>
             mapping.live ]_vars

\* C9 happens: the Lexer over an MMapReader has panicked on an overflowing
\* run and the mapping is released
C9_Witness ==
    /\ kind = "mmap" /\ status = "aborted" /\ mm.ptr > mm.base
    /\ mapping.released = 1

\* C10 as claimed: after a pull returned end-of-stream, every later pull on
\* the same source returns end-of-stream.
C10_EndOfStreamIsFinal ==
    \A i \in 1..Len(pulled) : \A j \in i..Len(pulled) :
        pulled[i] = EOS => pulled[j] = EOS

\* ---------------------------------------------------------------- C11
\* the Lexer has returned None at least once
Ended == mode = "lexer" /\ ends >= 1

\* C11: once Lexer::next has returned None -- the source was exhausted or an
\* unrecognized byte was met -- every later step is either another call that
\* returns None again or the drop of the Lexer: no token is emitted, the
\* source is not pulled and its state does not move, whatever bytes it still
\* holds, and what the Peekable caches stays cached.
C11_EndIsFinal ==
    [][ Ended =>
          /\ out' = out
          /\ pulled' = pulled
          /\ taken' = taken
          /\ inner' = inner /\ br' = br /\ mm' = mm /\ vec' = vec
          /\ peeked' = peeked
          /\ lexer' = lexer
          /\ \/ ends' = ends + 1 /\ status' = status
             \/ ends' = ends /\ status' = "dropped" ]_vars

\* C11 happens: a ByteReader whose read failed before the end of the file,
\* so that the source would yield the rest, and the Lexer called twice more
C11_Witness ==
    /\ mode = "lexer" /\ kind = "byte" /\ status = "live"
    /\ ends = 2
    /\ inner.faults = 1 /\ inner.pos < Len(content)
    /\ peeked = <<EOS>>
    /\ EosCount = 1

\* ---------------------------------------------------------------- C12
\* C12: over a resource of zero bytes every pull on the source -- ByteReader,
\* BufferedReader of any capacity from 1 on, MMapReader with its zero-length
\* mmap request -- returns end-of-stream: no byte is read from the resource,
\* the buffer and the mapped region are never read (offset and remainder stay
\* 0, the cursor stays at base = end), nothing panics, and the Lexer returns
\* no token.
C12_EmptyInput ==
    Len(content) = 0 =>
      /\ \A i \in 1..Len(pulled) : pulled[i] = EOS
      /\ inner.pos = 0
      /\ out = <<>> /\ taken = 0 /\ lexer.s = <<>>
      /\ status # "aborted"
      /\ kind = "buffered" => br.offset = 0 /\ br.remainder = 0
      /\ kind = "mmap" =>
           /\ mm.ptr = mm.base /\ mm.end = mm.base /\ mm.len = 0
           /\ ~mapping.live /\ mapping.released = 0

\* C12 happens: a Lexer over the MMapReader of an empty file returned None
\* and was dropped, the munmap of the mapping that never existed included
C12_Witness ==
    /\ Len(content) = 0 /\ kind = "mmap" /\ mode = "lexer"
    /\ ends >= 1 /\ pulled = <<EOS>> /\ out = <<>>
    /\ status = "dropped" /\ mapping.munmaps = 1

\* ---------------------------------------------------------------- C13
\* b with the bytes w inserted after its first k bytes
InsertAt(b, k, w) == SubSeq(b, 1, k) \o w \o SubSeq(b, k + 1, Len(b))

\* where whitespace may be inserted without joining or splitting tokens: in
\* front of the input, behind it, and on either side of a whitespace byte
WhitespaceSlots(b) ==
    { k \in 0..Len(b) :
        \/ k = 0
        \/ k = Len(b)
        \/ b[k] \in Whitespace
        \/ b[k + 1] \in Whitespace }

\* the inserted runs: every whitespace byte, alone and doubled
WhitespaceRuns ==
    { <<w>> : w \in Whitespace } \cup { <<w, w>> : w \in Whitespace }

\* the Lexer is through with its input: it returned None or panicked
Through == mode = "lexer" /\ (ends >= 1 \/ status = "aborted")

\* C13: whitespace produces no token and does not end the scan.  When the
\* Lexer is through with an input read without a failure of the resource,
\* an input of whitespace bytes only has given no token, and the same input
\* with whitespace bytes inserted in front of it, behind it or beside one of
\* its whitespace bytes gives exactly the tokens this run has given (and
\* panics exactly when this run has).
C13_WhitespaceIsInert ==
    (Through /\ NoFault) =>
      /\ (\A i \in 1..Len(content) : content[i] \in Whitespace) => out = <<>>
      /\ \A k \in WhitespaceSlots(content), w \in WhitespaceRuns :
           LET r == LexBytes(InsertAt(content, k, w))
           IN  r.toks = out /\ r.panic = (status = "aborted")

\* C13 happens: an input with whitespace in front of, between and behind its
\* two tokens has been lexed to the end
C13_Witness ==
    /\ Through /\ NoFault /\ ends = 1
    /\ content = <<32, 97, 32>>
    /\ out = <<Identifier(<<97>>)>>
    /\ taken = 3

\* ---------------------------------------------------------------- C14
\* a step of a call to next, inside an identifier or digit run, whose peek
\* finds the source at its end
RunMeetsEnd ==
    /\ Calling /\ lexer.pc \in {"ident", "number"}
    /\ peeked' = <<EOS>>

\* C14: when the source ends inside an identifier or digit run, the call
\* returns the whole run as an ordinary token -- the Identifier of all the
\* accumulated bytes, or the Number they denote (a panic if that is out of
\* i64 range, C5) -- and not None; read without failure, the run is the
\* input's whole tail.  Only the call after that returns None, and it adds
\* no token.
C14_TrailingRun ==
    [][ /\ RunMeetsEnd =>
            /\ ends' = ends
            /\ lexer.s # <<>>
            /\ NoFault' =>
                 lexer.s = SubSeq(content, Len(content) - Len(lexer.s) + 1, Len(content))
            /\ IF lexer.pc = "ident"
               THEN out' = Append(out, Identifier(lexer.s)) /\ status' = "live"
               ELSE IF InI64Range(RunValue(lexer.s))
               THEN out' = Append(out, Number(RunValue(lexer.s))) /\ status' = "live"
               ELSE out' = out /\ status' = "aborted"
        /\ (Calling /\ lexer.pc = "scan" /\ peeked = <<EOS>> /\ status' = "live") =>
            /\ ends' = ends + 1
            /\ out' = out ]_vars

\* C14 happens: an input ending in a digit run gave the run as its last
\* token, then None
C14_Witness ==
    /\ mode = "lexer" /\ NoFault /\ status = "live"
    /\ content = <<97, 32, 49>>
    /\ out = <<Identifier(<<97>>), Number(<<1>>)>>
    /\ ends = 1 /\ peeked = <<EOS>>

\* ---------------------------------------------------------------- C15
\* C15 as claimed: every pull on a ByteReader issues exactly one read request
\* on the resource, whether the request delivers a byte, zero bytes or fails.
C15_OneReadPerPull ==
    [][ (kind = "byte" /\ pulled' # pulled) =>
          inner'.reads = inner.reads + 1 ]_vars

\* ---------------------------------------------------------------- C16
\* a step in which the BufferedReader's next is called
BufferedPull == kind = "buffered" /\ pulled' # pulled

\* C16: a pull on a BufferedReader with offset = remainder issues exactly one
\* read request: if it delivers n > 0 bytes, remainder becomes n and the byte
\* served is the first byte delivered, from offset 0, which leaves offset 1;
\* if it delivers nothing or fails, the pull returns end-of-stream and offset
\* and remainder are as before.  A pull with offset < remainder issues no
\* read request, returns a byte and changes nothing but offset, by one.
C16_RefillProtocol ==
    [][ BufferedPull =>
          LET item == pulled'[Len(pulled')]
          IN  IF br.offset = br.remainder
              THEN /\ inner'.reads = inner.reads + 1
                   /\ IF inner'.pos > inner.pos
                      THEN /\ br'.remainder = inner'.pos - inner.pos
                           /\ br'.offset = 1
                           /\ item = content[inner.pos + 1]
                      ELSE /\ item = EOS
                           /\ br'.offset = br.offset
                           /\ br'.remainder = br.remainder
              ELSE /\ inner' = inner
                   /\ item # EOS
                   /\ br' = [br EXCEPT !.offset = br.offset + 1] ]_vars

\* C16 happens: after two refills the resource is at its end, the read
\* request at the end has delivered nothing, and offset and remainder are
\* left at the last refill's length
C16_Witness ==
    /\ kind = "buffered" /\ NoFault
    /\ inner.reads = 3 /\ inner.pos = Len(content)
    /\ pulled = content \o <<EOS>>
    /\ br.offset = br.remainder /\ br.remainder = 1 /\ Len(br.buffer) = 2

\* ---------------------------------------------------------------- C17
\* the first remainder positions of the buffer hold what the most recent
\* successful read request delivered: the remainder bytes of the resource
\* that end at its position
ValidRegionIsLastRead ==
    /\ br.remainder <= Len(br.buffer)
    /\ \A i \in 1..br.remainder :
         br.buffer[i] = content[inner.pos - br.remainder + i]

\* C17: in a BufferedReader the buffer's first remainder positions always
\* hold the bytes of the most recent successful read request, and every byte
\* served is read from one of them: the index read, offset before it is
\* advanced, is below remainder and inside the buffer, and the byte served
\* is the byte that read request delivered for this index -- not a byte of
\* an unfilled position and not one left from an earlier refill -- which is
\* the resource's next byte.
C17_ServedFromValidRegion ==
    /\ [](kind = "buffered" => ValidRegionIsLastRead)
    /\ [][ (BufferedPull /\ pulled'[Len(pulled')] # EOS) =>
             LET index == br'.offset - 1
             IN  /\ 0 <= index /\ index < br'.remainder
                 /\ index < Len(br'.buffer)
                 /\ pulled'[Len(pulled')] = br'.buffer[index + 1]
                 /\ pulled'[Len(pulled')] =
                      content[inner'.pos - br'.remainder + index + 1]
                 /\ inner'.pos - br'.remainder + index = BytesPulled ]_vars

\* C17 happens: a 2-byte buffer filled by a full read, then refilled by a
\* read of one byte, has served that byte; the position behind it still
\* holds a byte of the earlier refill
C17_Witness ==
    /\ kind = "buffered" /\ Len(br.buffer) = 2
    /\ inner.reads = 2 /\ inner.pos = 3
    /\ br.remainder = 1 /\ br.offset = 1
    /\ pulled = content
    /\ br.buffer = <<content[3], content[2]>>
    /\ content[2] # content[3]

\* ---------------------------------------------------------------- C18
\* a step in which the MMapReader's next is called
MMapPull == kind = "mmap" /\ pulled' # pulled

\* C18: in an MMapReader base <= ptr <= end = base + len always holds, with
\* len the file's length; a pull with ptr < end returns the byte at ptr and
\* advances ptr by one, a pull with ptr = end returns end-of-stream and
\* leaves the reader as it is; so the pulls deliver the file's len bytes in
\* order, each once, then end-of-stream; and no read request is ever issued
\* on the file.
C18_MappedCursor ==
    /\ [](kind = "mmap" =>
            /\ mm.base <= mm.ptr /\ mm.ptr <= mm.end
            /\ mm.end = mm.base + mm.len
            /\ mm.len = Len(content)
            /\ BytesPulled = mm.ptr - mm.base
            /\ pulled = Delivered(content, Len(pulled))
            /\ inner.reads = 0)
    /\ [][ MMapPull =>
             IF mm.ptr < mm.end
             THEN /\ pulled' = Append(pulled, content[mm.ptr - mm.base + 1])
                  /\ mm' = [mm EXCEPT !.ptr = mm.ptr + 1]
             ELSE /\ pulled' = Append(pulled, EOS)
                  /\ mm' = mm ]_vars

\* C18 happens: an MMapReader over three bytes has been pulled five times
C18_Witness ==
    /\ kind = "mmap" /\ mode = "direct" /\ status = "live"
    /\ Len(content) = 3
    /\ pulled = content \o <<EOS, EOS>>
    /\ mm.ptr = mm.end /\ mm.end = mm.base + 3

\* ---------------------------------------------------------------- C19
\* [A-Za-z_][A-Za-z0-9_]*, in ASCII
WellFormedIdentifier(s) ==
    /\ Len(s) >= 1
    /\ s[1] \in Letters \cup {Underscore}
    /\ \A i \in 1..Len(s) : s[i] \in Letters \cup Digits \cup {Underscore} /\ s[i] < 128

\* [0-9]+, in ASCII
WellFormedDigits(s) ==
    /\ Len(s) >= 1
    /\ \A i \in 1..Len(s) : s[i] \in Digits /\ s[i] < 128

\* C19: the bytes the Lexer accumulates, which it hands to
\* from_utf8_unchecked when the run ends, are never empty and are ASCII
\* only: in the identifier loop a letter or underscore followed by letters,
\* digits and underscores, in the digit loop digits only; so is the text of
\* every Identifier returned.  This holds whatever bytes the input holds,
\* bytes from 0x80 on included.
C19_AccumulatorIsAscii ==
    mode = "lexer" =>
      /\ lexer.pc = "ident" => WellFormedIdentifier(lexer.s)
      /\ lexer.pc = "number" => WellFormedDigits(lexer.s)
      /\ \A i \in 1..Len(out) :
           out[i][1] = "Identifier" => WellFormedIdentifier(out[i][2])

\* C19 happens: in the input _ 0x80 a the identifier _ was returned and the
\* byte 0x80 ended the scan
C19_Witness ==
    /\ mode = "lexer" /\ content = <<95, 128, 97>>
    /\ out = <<Identifier(<<95>>)>>
    /\ ends = 1 /\ peeked = <<128>>

\* ---------------------------------------------------------------- C20
\* the bytes pulled and not yet taken by the Lexer: the lookahead
Lookahead == BytesPulled - taken

\* what a drain has done so far: bytes taken, tokens returned, pulls made
\* and calls that returned None
Progress == taken + Len(out) + Len(pulled) + ends

\* C20: the Lexer looks one byte ahead and reads forward only.  In every
\* state of a Lexer over an input of n bytes: the bytes pulled are the first
\* bytes of the input in order, each once, followed by at most one
\* end-of-stream; the bytes taken are a prefix of them, all of which are in
\* the tokens returned, skipped as whitespace, or in the run being
\* accumulated; at most one byte has been pulled and not taken, the one the
\* Peekable holds.  There are at most n + 1 pulls, and until the first None
\* or the panic every step of the Lexer adds to the sum of bytes taken,
\* tokens returned and pulls made, which never exceeds 3n + 1: the drain
\* ends.
C20_SingleLookahead ==
    /\ [](mode = "lexer" =>
            /\ Lookahead \in {0, 1}
            /\ Lookahead = 1 <=> (peeked # <<>> /\ peeked[1] # EOS)
            /\ \A i \in 1..Len(pulled) :
                 \/ i = Len(pulled) /\ pulled[i] = EOS
                 \/ i <= Len(content) /\ pulled[i] = content[i]
            /\ Len(pulled) <= Len(content) + 1
            /\ lexer.s = SubSeq(content, taken - Len(lexer.s) + 1, taken)
            /\ (lexer.pc = "scan" /\ status # "aborted") =>
                 LexBytes(SubSeq(content, 1, taken)).toks = out
            /\ ends = 0 => Progress <= 3 * Len(content) + 1)
    /\ [][ (Calling /\ status' = "live") => Progress' > Progress ]_vars

\* C20 happens: three bytes were lexed to the end with four pulls, the last
\* one the end-of-stream
C20_Witness ==
    /\ mode = "lexer" /\ kind = "byte" /\ NoFault
    /\ content = <<97, 32, 49>>
    /\ pulled = <<97, 32, 49, EOS>>
    /\ taken = 3 /\ Len(out) = 2 /\ ends = 1
    /\ Progress = 10

====
